---- MODULE Spec2Model ----
(***************************************************************************)
(* A model of news_scraper/scraper.py: ArticleLinkScraper (link collection *)
(* in RSS, API and FRONTEND mode) and ArticleContentScraper (per-link      *)
(* content extraction with hooks and ten field selectors).                 *)
(*                                                                         *)
(* The browser (SeleniumBase / selenium-wire) is the environment: what a   *)
(* navigation, a lookup or a hook does is drawn from small sets when the   *)
(* call is made, and remembered in the variables observed, dom and steps. *)
(***************************************************************************)
EXTENDS Naturals, Sequences, FiniteSets

\* ------------------------------------------------------------ bounds
MaxTargets == 2   \* longest urls list / link_list handed to a scraper
MaxItems == 2     \* most item nodes of a feed document
MaxHooks == 2     \* longest pre_hooks / post_hooks list

\* ------------------------------------------------------------ values
Null == "None"                      \* Python's None
Targets == {"u1", "u2"}             \* target URLs a caller may configure
Hrefs == {"a1", "a2"}               \* article links a site may serve
NoLinkChild == "<item without link>" \* an item node for which x.find('link') is None
Stale == "<stale element>"          \* an element whose get_attribute raises

SeqsUpTo(S, n) == UNION {[1..k -> S] : k \in 0..n}

RECURSIVE Flatten(_)
Flatten(ss) == IF ss = <<>> THEN <<>> ELSE Head(ss) \o Flatten(Tail(ss))

\* scraping_mode as the caller may set it; "OTHER" stands for any other string
ScrapingModes == {"RSS", "API", "FRONTEND", "OTHER"}
\* selenium_settings['mode'] of ArticleLinkScraper: the code only tests == 'uc'
LinkDriverModes == {"uc", "wire"}

\* An item node of a feed: the text of its link child (Null for an empty
\* <link/>, NoLinkChild when it has none) and of its title child.
Items == [link : Hrefs \cup {Null, NoLinkChild}, title : {"title"}]
\* A feed document as returned by page_source: malformed XML, or the item
\* nodes of a well-formed document in document order.
Feeds ==
    {[wellformed |-> FALSE, items |-> <<>>]}
    \cup {[wellformed |-> TRUE, items |-> its] : its \in SeqsUpTo(Items, MaxItems)}

\* One captured exchange: the requested URL, its response (ok = the body
\* decodes, parses as JSON and article_url_selector returns the links for
\* it), and the number of the target during whose processing it was recorded.
Exchange(u, r, k) == [url |-> u, resp |-> r, at |-> k]
Failing == [ok |-> FALSE, links |-> <<>>]
OneLink == [ok |-> TRUE, links |-> <<"a1">>]
TwoLinks == [ok |-> TRUE, links |-> <<"a2", "a1">>]
Responses == {Failing, OneLink, TwoLinks}

\* What driver.get(p) may add to driver.requests while target number k is
\* processed: nothing, exchanges for p itself, exchanges for another URL.
Loads(p, k) ==
    { <<>>,
      <<Exchange(p, OneLink, k)>>,
      <<Exchange(p, Failing, k)>>,
      <<Exchange(p, TwoLinks, k), Exchange(p, OneLink, k)>>,
      <<Exchange(p, OneLink, k), Exchange(p, Failing, k)>> }
    \cup UNION { { <<Exchange(q, OneLink, k)>>,
                   <<Exchange(q, TwoLinks, k), Exchange(p, Failing, k)>> } :
                 q \in Targets \ {p} }

\* What find_elements may return for article_url_selector on a loaded
\* page: the href of each element, or an element whose get_attribute raises.
Pages ==
    { <<>>, <<"a1">>, <<"a2", "a1">>, <<"a1", "a1">>, <<Stale>>, <<"a1", Stale>>,
      <<Stale, "a2">> }

VARIABLES
    component,            \* which class's run() this behaviour is
    scraping_mode,        \* self.scraping_mode
    selenium_mode,        \* selenium_settings['mode'] / self.selenium_mode
    urls,                 \* ArticleLinkScraper.urls
    article_url_selector, \* ArticleLinkScraper.article_url_selector
    driver,               \* the browser session: "none", "open", "closed"
    scoped,               \* the session was opened by `with SB(...)`
    requests,             \* driver.requests (selenium-wire's capture list)
    link_list,            \* the local link_list of scrape_links_*
    page,                 \* index into urls of the target the loop is at
    pc,                   \* position in run()
    result,               \* how run() ended
    visited,              \* every URL a navigation was started for, in order
    observed,             \* per target requested: whether it loaded, what the
                          \* browser served for it, whether processing it failed
    self_link_list,       \* ArticleContentScraper.link_list
    pre_hooks,            \* ArticleContentScraper.pre_hooks
    post_hooks,           \* ArticleContentScraper.post_hooks
    selectors,            \* the ten *_selector attributes, by field name
    site,                 \* what the visited site may do (see Sites)
    current_url,          \* driver.current_url
    dom,                  \* per field: what its lookup found on this page
    li,                   \* index into link_list of the link run() is at
    hi,                   \* index of the next hook to call
    fi,                   \* index into Fields of the next field to attempt
    locals,               \* the ten field locals of scrape_article_frontend
    article_data,         \* the record scrape_article_frontend builds
    articles,             \* the local articles of run()
    clock,                \* steps taken so far: the time utcnow() reads
    steps                 \* what was done for the current link, in order

linkVars == <<urls, article_url_selector, requests, link_list, page, observed>>
contentVars == <<self_link_list, pre_hooks, post_hooks, selectors, site,
                 current_url, dom, li, hi, fi, locals, article_data, articles,
                 clock,
                 steps>>
vars == <<component, scraping_mode, selenium_mode, driver, scoped, pc, result,
          visited, linkVars, contentVars>>

\* ------------------------------------------- values of the content scraper
ArticleLinks == {"l1", "l2"}        \* article URLs a caller may pass
\* The link lists of length n a caller may pass: two links in turn (the
\* same link twice makes a list of duplicates).
LinkLists(n) ==
    {[i \in 1..n |-> IF i % 2 = 1 THEN a ELSE b] : a, b \in ArticleLinks}

\* The ten content fields, in the order scrape_article_frontend attempts them.
Fields ==
    << "datetime_published", "paywall", "author", "category", "image_url",
       "kicker", "headline", "teaser", "body", "subheadlines" >>
FieldNames == {Fields[i] : i \in 1..Len(Fields)}
\* The fields whose try block passes multiple=<selector>[1]; the other four
\* call get_element_by_xpath with the default multiple=False.
PassesMultiple == {"paywall", "category", "kicker", "teaser", "body", "subheadlines"}

\* A selector attribute: None (not configured), or a tuple
\* (xpath, multiple, func). func: Null (no transform), "total" (returns a
\* value for whatever it is given), "strict" (raises on an empty list, as
\* lambda x: x[0].text does), "raises" (raises on whatever it is given).
NotConfigured == [configured |-> FALSE, xpath |-> Null, multiple |-> FALSE, func |-> Null]
Selector(x, m, f) == [configured |-> TRUE, xpath |-> x, multiple |-> m, func |-> f]
SelectorKinds ==
    {NotConfigured, Selector(Null, FALSE, "total")}
    \cup {Selector("xpath", m, f) :
             m \in BOOLEAN, f \in {Null, "total", "strict", "raises"}}
\* One selector for the single-element fields, one for the others.
Config(single, multi) ==
    [f \in FieldNames |-> IF f \in PassesMultiple THEN multi ELSE single]

\* A field's value: what the lookup gave ("element", "[]", "[element]" or
\* None) and whether func was applied to it.
Value(raw, transformed) == [raw |-> raw, transformed |-> transformed]
None == Value(Null, FALSE)
Unset == Value("<unset>", FALSE)

\* driver.current_url: the link navigated to and what happened to it since.
Url(link, state) == [link |-> link, state |-> state]
Blank == Url("data:,", "blank")

\* article_data: {} until the record is assembled.
EmptyDict ==
    [assembled |-> FALSE, medium |-> Null, datetime_saved |-> 0, url |-> Blank,
     fields |-> [f \in FieldNames |-> Unset], extra |-> <<>>, archive_url |-> Null]

\* What a site may do: the fields whose locator may match nothing, and
\* whether a hook may leave the browser at another URL.
Sites == [flaky : SUBSET FieldNames, moving : BOOLEAN]

NoResult == [kind |-> "none", what |-> Null]
Return(what) == [kind |-> "return", what |-> what]
Raise(error) == [kind |-> "raise", what |-> error]

\* The ValueErrors of the two run methods and of create_selenium_driver,
\* told apart by their messages.
NoScrapingMethod == "ValueError: You need to specify a scraping method"
ApiInUcMode == "ValueError: API requests cannot be parsed in Seleniumbase UC-mode"
EmptyLinkList == "ValueError: link_list is empty."
InvalidSeleniumMode == "ValueError: Invalid parameter for selenium_mode"

\* ------------------------------------------------ ArticleLinkScraper

InitLinkScraper ==
    /\ component = "ArticleLinkScraper"
    /\ scraping_mode \in ScrapingModes
    /\ selenium_mode \in LinkDriverModes
    /\ urls \in SeqsUpTo(Targets, MaxTargets)
    /\ article_url_selector \in {"selector", Null}
    /\ driver = "none"
    /\ scoped = FALSE
    /\ requests = <<>>
    /\ link_list = <<>>
    /\ page = 1
    /\ pc = "run"
    /\ result = NoResult
    /\ visited = <<>>
    /\ observed = <<>>
    /\ self_link_list = <<>>
    /\ pre_hooks = <<>>
    /\ post_hooks = <<>>
    /\ selectors = Config(NotConfigured, NotConfigured)
    /\ site = [flaky |-> {}, moving |-> FALSE]
    /\ current_url = Blank
    /\ dom = [f \in FieldNames |-> "unasked"]
    /\ li = 1
    /\ hi = 1
    /\ fi = 1
    /\ locals = [f \in FieldNames |-> Unset]
    /\ article_data = EmptyDict
    /\ articles = <<>>
    /\ clock = 0
    /\ steps = <<>>

\* ArticleLinkScraper.run, up to the call of scrape_links_*: the mode
\* dispatch and the creation of the session.
LinkRunDispatch(mode, smode) ==
    IF mode \in {"RSS", "FRONTEND"}
    THEN [session |-> TRUE, scoped |-> smode = "uc",
          pc |-> IF mode = "RSS" THEN "scrape_links_rss" ELSE "scrape_links_frontend",
          result |-> NoResult]
    ELSE IF mode = "API"
    THEN IF smode = "uc"
         THEN [session |-> FALSE, scoped |-> FALSE, pc |-> "done",
               result |-> Raise(ApiInUcMode)]
         ELSE [session |-> TRUE, scoped |-> FALSE, pc |-> "scrape_links_api",
               result |-> NoResult]
    ELSE [session |-> FALSE, scoped |-> FALSE, pc |-> "done",
          result |-> Raise(NoScrapingMethod)]

LinkRun ==
    /\ component = "ArticleLinkScraper"
    /\ pc = "run"
    /\ LET d == LinkRunDispatch(scraping_mode, selenium_mode) IN
        /\ driver' = IF d.session THEN "open" ELSE driver
        /\ scoped' = d.scoped
        /\ pc' = d.pc
        /\ result' = d.result
    /\ UNCHANGED <<component, scraping_mode, selenium_mode, visited, linkVars, contentVars>>

\* driver.quit() as the scrape_links_rss / scrape_links_frontend write it:
\* `if not self.selenium_settings['mode'] == 'uc': driver.quit()`
QuitUnlessUc(smode, d) == IF smode # "uc" THEN "closed" ELSE d

\* A variant that leaves out the items whose link has no text.
RssLinks_SkippingEmpty(feed) ==
    IF ~feed.wellformed THEN [raised |-> "ParseError", links |-> <<>>]
    ELSE IF \E i \in 1..Len(feed.items) : feed.items[i].link = NoLinkChild
    THEN [raised |-> "AttributeError", links |-> <<>>]
    ELSE [raised |-> Null,
          links |-> LET all == [i \in 1..Len(feed.items) |-> feed.items[i].link]
                    IN SelectSeq(all, LAMBDA l : l # Null)]

\* root = ET.fromstring(xml_content);
\* link_list = [x.find('link').text for x in root.findall('.//item')]
RssLinks(feed) ==
    IF ~feed.wellformed THEN [raised |-> "ParseError", links |-> <<>>]
    ELSE IF \E i \in 1..Len(feed.items) : feed.items[i].link = NoLinkChild
    THEN [raised |-> "AttributeError", links |-> <<>>]
    ELSE [raised |-> Null,
          links |-> [i \in 1..Len(feed.items) |-> feed.items[i].link]]

scrape_links_rss ==
    /\ pc = "scrape_links_rss"
    /\ \/ \* self.urls[0] on an empty list: raised before the try block
          /\ urls = <<>>
          /\ result' = Raise("IndexError")
          /\ UNCHANGED <<driver, visited, link_list, observed>>
       \/ \* the navigation raises: before the try block, no finally
          /\ urls # <<>>
          /\ visited' = Append(visited, urls[1])
          /\ result' = Raise("WebDriverException")
          /\ observed' = Append(observed, [loaded |-> FALSE, failed |-> TRUE, served |-> <<>>])
          /\ UNCHANGED <<driver, link_list>>
       \/ \* the navigation returns: try / except: raise / finally
          /\ urls # <<>>
          /\ visited' = Append(visited, urls[1])
          /\ \E feed \in Feeds :
                LET r == RssLinks(feed) IN
                /\ link_list' = r.links
                /\ result' = IF r.raised = Null THEN Return("link_list")
                             ELSE Raise(r.raised)
                /\ observed' = Append(observed,
                                      [loaded |-> TRUE,
                                       failed |-> r.raised # Null,
                                       served |-> feed])
          /\ driver' = QuitUnlessUc(selenium_mode, driver)
    /\ pc' = "run_exit"
    /\ UNCHANGED <<component, scraping_mode, selenium_mode, scoped, urls,
                   article_url_selector, requests, page, contentVars>>

\* for i, v in enumerate(driver.requests): if page == v.url: decode,
\* json.loads, link_list.extend(self.article_url_selector(response))
RECURSIVE ProcessRequests(_, _, _, _)
ProcessRequests(reqs, p, selector, acc) ==
    IF reqs = <<>> THEN [raised |-> FALSE, links |-> acc]
    ELSE LET v == Head(reqs) IN
         IF v.url # p THEN ProcessRequests(Tail(reqs), p, selector, acc)
         ELSE IF v.resp.ok /\ selector # Null
         THEN ProcessRequests(Tail(reqs), p, selector, acc \o v.resp.links)
         ELSE [raised |-> TRUE, links |-> acc]

\* One iteration of `for page in self.urls` of scrape_links_api.
scrape_links_api_page ==
    /\ pc = "scrape_links_api"
    /\ page <= Len(urls)
    /\ visited' = Append(visited, urls[page])
    /\ \/ \* driver.get(page) raises: except ... continue
          /\ observed' = Append(observed, [loaded |-> FALSE, failed |-> TRUE, served |-> <<>>])
          /\ UNCHANGED <<requests, link_list>>
       \/ \E captured \in Loads(urls[page], page) :
             LET reqs == requests \o captured
                 r == ProcessRequests(reqs, urls[page], article_url_selector,
                                      link_list)
             IN /\ link_list' = r.links
                /\ requests' = IF r.raised THEN reqs ELSE <<>>
                /\ observed' = Append(observed,
                                      [loaded |-> TRUE, failed |-> r.raised,
                                       served |-> reqs])
    /\ page' = page + 1
    /\ UNCHANGED <<component, scraping_mode, selenium_mode, driver, scoped, pc,
                   result, urls, article_url_selector, contentVars>>

\* After the loop of scrape_links_api: quit, then return or raise.
scrape_links_api_end ==
    /\ pc = "scrape_links_api"
    /\ page > Len(urls)
    /\ driver' = "closed"
    /\ result' = IF link_list # <<>> THEN Return("link_list") ELSE Raise("NoLinks")
    /\ pc' = "run_exit"
    /\ UNCHANGED <<component, scraping_mode, selenium_mode, scoped, visited,
                   linkVars, contentVars>>

\* [link_list.append(x.get_attribute('href')) for x in elements]
RECURSIVE AppendHrefs(_, _)
AppendHrefs(elements, acc) ==
    IF elements = <<>> THEN [raised |-> FALSE, links |-> acc]
    ELSE IF Head(elements) = Stale THEN [raised |-> TRUE, links |-> acc]
    ELSE AppendHrefs(Tail(elements), Append(acc, Head(elements)))

\* A variant that skips an href it already holds.
RECURSIVE AppendNewHrefs(_, _)
AppendNewHrefs(elements, acc) ==
    IF elements = <<>> THEN [raised |-> FALSE, links |-> acc]
    ELSE IF Head(elements) = Stale THEN [raised |-> TRUE, links |-> acc]
    ELSE IF \E i \in 1..Len(acc) : acc[i] = Head(elements)
    THEN AppendNewHrefs(Tail(elements), acc)
    ELSE AppendNewHrefs(Tail(elements), Append(acc, Head(elements)))
CollectHrefs_Deduplicating(selector, elements, acc) ==
    IF selector = Null THEN [raised |-> TRUE, links |-> acc]
    ELSE AppendNewHrefs(elements, acc)

\* ArticleLinkScraper.get_element_by_xpath(driver, selector, multiple=True)
\* followed by the iteration over what it returned (None is not iterable).
CollectHrefs(selector, elements, acc) ==
    IF selector = Null THEN [raised |-> TRUE, links |-> acc]
    ELSE AppendHrefs(elements, acc)

\* One iteration of `for page in self.urls` of scrape_links_frontend.
scrape_links_frontend_page ==
    /\ pc = "scrape_links_frontend"
    /\ page <= Len(urls)
    /\ visited' = Append(visited, urls[page])
    /\ \/ \* the navigation raises: except ... continue
          /\ observed' = Append(observed, [loaded |-> FALSE, failed |-> TRUE, served |-> <<>>])
          /\ UNCHANGED link_list
       \/ \E elements \in Pages :
             LET r == CollectHrefs(article_url_selector, elements, link_list)
             IN /\ link_list' = r.links
                /\ observed' = Append(observed,
                                      [loaded |-> TRUE, failed |-> r.raised,
                                       served |-> elements])
    /\ page' = page + 1
    /\ UNCHANGED <<component, scraping_mode, selenium_mode, driver, scoped, pc,
                   result, urls, article_url_selector, requests,
                   contentVars>>

\* After the loop of scrape_links_frontend: quit unless uc, return or raise.
scrape_links_frontend_end ==
    /\ pc = "scrape_links_frontend"
    /\ page > Len(urls)
    /\ driver' = QuitUnlessUc(selenium_mode, driver)
    /\ result' = IF link_list # <<>> THEN Return("link_list") ELSE Raise("NoLinks")
    /\ pc' = "run_exit"
    /\ UNCHANGED <<component, scraping_mode, selenium_mode, scoped, visited,
                   linkVars, contentVars>>

\* Leaving run(): a `with SB(...) as driver` block closes its session on
\* the way out, by return or by exception; a Driver(...) is left as it is.
LinkRunExit ==
    /\ component = "ArticleLinkScraper"
    /\ pc = "run_exit"
    /\ driver' = IF scoped THEN "closed" ELSE driver
    /\ pc' = "done"
    /\ UNCHANGED <<component, scraping_mode, selenium_mode, scoped, result,
                   visited, linkVars, contentVars>>

\* --------------------------------------------- ArticleContentScraper

ContentDriverModes == {"uc", "wire", "other"}
Hooks(n) == [i \in 1..n |-> i]

\* The state after construction, for given ranges of the inputs.
InitContentScraper(linkLists, hookLists, configs, sites) ==
    /\ component = "ArticleContentScraper"
    /\ scraping_mode \in ScrapingModes
    /\ selenium_mode \in ContentDriverModes
    /\ self_link_list \in linkLists
    /\ pre_hooks \in hookLists
    /\ post_hooks \in hookLists
    /\ selectors \in configs
    /\ site \in sites
    /\ urls = <<>>
    /\ article_url_selector = Null
    /\ driver = "none"
    /\ scoped = FALSE
    /\ requests = <<>>
    /\ link_list = <<>>
    /\ page = 1
    /\ pc = "run"
    /\ result = NoResult
    /\ visited = <<>>
    /\ observed = <<>>
    /\ current_url = Blank
    /\ dom = [f \in FieldNames |-> "unasked"]
    /\ li = 1
    /\ hi = 1
    /\ fi = 1
    /\ locals = [f \in FieldNames |-> Unset]
    /\ article_data = EmptyDict
    /\ articles = <<>>
    /\ clock = 0
    /\ steps = <<>>

Step(op, n, raised, url, t) ==
    [op |-> op, n |-> n, raised |-> raised, url |-> url, t |-> t]

\* A variant that creates the driver before it looks at the scraping mode.
ContentRunDispatch_DriverFirst(links, mode, smode) ==
    IF links # <<>>
    THEN IF smode \notin {"wire", "uc"}
         THEN [session |-> FALSE, pc |-> "done", result |-> Raise(InvalidSeleniumMode)]
         ELSE IF mode \in {"RSS", "API"}
         THEN [session |-> TRUE, pc |-> "done", result |-> Return(Null)]
         ELSE IF mode = "FRONTEND"
         THEN [session |-> TRUE, pc |-> "loop", result |-> NoResult]
         ELSE [session |-> TRUE, pc |-> "done", result |-> Raise(NoScrapingMethod)]
    ELSE [session |-> FALSE, pc |-> "done", result |-> Raise(EmptyLinkList)]

\* A variant in which the two unimplemented modes fall through to the final
\* else branch of the dispatch.
ContentRunDispatch_StubsRaise(links, mode, smode) ==
    IF links # <<>>
    THEN IF mode = "FRONTEND"
         THEN IF smode \in {"wire", "uc"}
              THEN [session |-> TRUE, pc |-> "loop", result |-> NoResult]
              ELSE [session |-> FALSE, pc |-> "done", result |-> Raise(InvalidSeleniumMode)]
         ELSE [session |-> FALSE, pc |-> "done", result |-> Raise(NoScrapingMethod)]
    ELSE [session |-> FALSE, pc |-> "done", result |-> Raise(EmptyLinkList)]

\* ArticleContentScraper.run up to its loop: the link_list test, the mode
\* dispatch and create_selenium_driver.
ContentRunDispatch(links, mode, smode) ==
    IF links # <<>>
    THEN IF mode \in {"RSS", "API"}
         THEN [session |-> FALSE, pc |-> "done", result |-> Return(Null)]
         ELSE IF mode = "FRONTEND"
         THEN IF smode \in {"wire", "uc"}
              THEN [session |-> TRUE, pc |-> "loop", result |-> NoResult]
              ELSE [session |-> FALSE, pc |-> "done", result |-> Raise(InvalidSeleniumMode)]
         ELSE [session |-> FALSE, pc |-> "done", result |-> Raise(NoScrapingMethod)]
    ELSE [session |-> FALSE, pc |-> "done", result |-> Raise(EmptyLinkList)]

ContentRun ==
    /\ component = "ArticleContentScraper"
    /\ pc = "run"
    /\ LET d == ContentRunDispatch(self_link_list, scraping_mode, selenium_mode) IN
        /\ driver' = IF d.session THEN "open" ELSE driver
        /\ pc' = d.pc
        /\ result' = d.result
    /\ UNCHANGED <<component, scraping_mode, selenium_mode, scoped, visited,
                   linkVars, contentVars>>

\* A variant that never enters the pre-hook loop.
AfterNavigation_NoPreHooks(pre) == "fields"

\* Where scrape_article_frontend goes on entry (`if self.pre_hooks:`) and
\* after the assembly (`if self.post_hooks:`).
AfterNavigation(pre) == IF pre # <<>> THEN "pre_hooks" ELSE "fields"
AfterAssembly(post) == IF post # <<>> THEN "post_hooks" ELSE "append"

\* driver.get(link) of run()'s loop, and the entry of scrape_article_frontend.
Navigate ==
    /\ pc = "loop"
    /\ li <= Len(self_link_list)
    /\ visited' = Append(visited, self_link_list[li])
    /\ clock' = clock + 1
    /\ \/ \* driver.get raises: nothing in run() catches it
          /\ result' = Raise("WebDriverException")
          /\ pc' = "done"
          /\ UNCHANGED <<current_url, dom, hi, fi, locals, article_data, steps>>
       \/ \E landed \in {"landing", "redirected"} :
             /\ current_url' = Url(self_link_list[li], landed)
             /\ dom' = [f \in FieldNames |-> "unasked"]
             /\ hi' = 1
             /\ fi' = 1
             /\ locals' = [f \in FieldNames |-> Unset]
             /\ article_data' = EmptyDict
             /\ steps' = << Step("navigate", li, FALSE, current_url', clock') >>
             /\ pc' = AfterNavigation(pre_hooks)
             /\ UNCHANGED result
    /\ UNCHANGED <<component, scraping_mode, selenium_mode, driver, scoped,
                   linkVars, self_link_list, pre_hooks, post_hooks, selectors,
                   site, li, articles>>

\* What a call of a caller's hook may do: raise, return, or return having
\* sent the browser elsewhere.
HookOutcomes(s) == {"raises", "returns"} \cup (IF s.moving THEN {"moves"} ELSE {})
UrlAfterHook(outcome, url) ==
    IF outcome = "moves" THEN Url(url.link, "moved") ELSE url

\* A variant whose except leaves the loop (break for continue).
AfterHook_StopsOnFailure(outcome, i, n, again, next) ==
    IF i < n /\ outcome # "raises" THEN [pc |-> again, hi |-> i + 1]
    ELSE [pc |-> next, hi |-> 1]

\* The try/except/continue around one hook call: the position after hook
\* number i of n, whatever the call did.
AfterHook(outcome, i, n, again, next) ==
    IF i < n THEN [pc |-> again, hi |-> i + 1] ELSE [pc |-> next, hi |-> 1]

\* One iteration of `for hook in self.pre_hooks`.
PreHook ==
    /\ pc = "pre_hooks"
    /\ hi <= Len(pre_hooks)
    /\ clock' = clock + 1
    /\ \E outcome \in HookOutcomes(site) :
          LET a == AfterHook(outcome, hi, Len(pre_hooks), "pre_hooks", "fields") IN
          /\ current_url' = UrlAfterHook(outcome, current_url)
          /\ steps' = Append(steps, Step("pre_hook", pre_hooks[hi],
                                         outcome = "raises", current_url', clock'))
          /\ pc' = a.pc
          /\ hi' = a.hi
    /\ UNCHANGED <<component, scraping_mode, selenium_mode, driver, scoped,
                   result, visited, linkVars, self_link_list, pre_hooks,
                   post_hooks, selectors, site, dom, li, fi, locals,
                   article_data, articles>>

\* func(x) for a selector's transform.
Call(func, raw) ==
    IF func = "raises" \/ (func = "strict" /\ raw = "[]")
    THEN [raised |-> TRUE, value |-> None]
    ELSE [raised |-> FALSE, value |-> Value(raw, TRUE)]

\* ArticleContentScraper.get_element_by_xpath; found is what the page holds
\* for the locator ("absent" or "present"): find_element raises
\* NoSuchElementException when nothing matches, find_elements returns [].
get_element_by_xpath(found, xpath_selector, multiple, func) ==
    IF xpath_selector # Null
    THEN IF multiple
         THEN LET elements == IF found = "absent" THEN "[]" ELSE "[element]" IN
              IF func # Null THEN Call(func, elements)
              ELSE [raised |-> FALSE, value |-> Value(elements, FALSE)]
         ELSE IF found = "absent" THEN [raised |-> TRUE, value |-> None]
              ELSE IF func # Null THEN Call(func, "element")
              ELSE [raised |-> FALSE, value |-> Value("element", FALSE)]
    ELSE [raised |-> FALSE, value |-> None]

\* One of the ten try/except blocks: subscripting a selector that is None
\* raises TypeError inside the try, as does whatever get_element_by_xpath
\* raises; the except sets the local to None.
FieldAttempt(f, sel, found) ==
    IF ~sel.configured THEN None
    ELSE LET r == get_element_by_xpath(
                      found, sel.xpath,
                      IF f \in PassesMultiple THEN sel.multiple ELSE FALSE,
                      sel.func)
         IN IF r.raised THEN None ELSE r.value

\* A variant in which a failed field ends the attempts.
AfterField_ShortCircuit(raised, i) ==
    IF i < Len(Fields) /\ ~raised THEN [pc |-> "fields", fi |-> i + 1]
    ELSE [pc |-> "assemble", fi |-> i + 1]

\* The position after the try block of field number i.
AfterField(raised, i) ==
    IF i < Len(Fields) THEN [pc |-> "fields", fi |-> i + 1]
    ELSE [pc |-> "assemble", fi |-> i + 1]

\* A lookup is made only for a configured selector with a locator.
Looks(sel) == sel.configured /\ sel.xpath # Null

ExtractField ==
    /\ pc = "fields"
    /\ fi <= Len(Fields)
    /\ clock' = clock + 1
    /\ LET f == Fields[fi]
           sel == selectors[f]
       IN \E found \in {"present"} \cup (IF f \in site.flaky THEN {"absent"} ELSE {}) :
             LET a == AfterField(FieldAttempt(f, sel, found) = None, fi) IN
             /\ dom' = IF Looks(sel) THEN [dom EXCEPT ![f] = found] ELSE dom
             /\ locals' = [locals EXCEPT ![f] = FieldAttempt(f, sel, found)]
             /\ steps' = Append(steps, Step("field", fi, FALSE, current_url, clock'))
             /\ pc' = a.pc
             /\ fi' = a.fi
    /\ UNCHANGED <<component, scraping_mode, selenium_mode, driver, scoped,
                   result, visited, linkVars, self_link_list, pre_hooks,
                   post_hooks, selectors, site, current_url, li, hi,
                   article_data, articles>>

\* article_data[...] = ... : the record as lines 391-404 fill it, read at
\* time now from the locals, the driver and the link.
Assembled(now, url, vals, link) ==
    [assembled |-> TRUE, medium |-> "medium", datetime_saved |-> now,
     url |-> url, fields |-> vals, extra |-> <<>>, archive_url |-> link]

Assemble ==
    /\ pc = "assemble"
    /\ clock' = clock + 1
    /\ article_data' = Assembled(clock', current_url, locals, self_link_list[li])
    /\ steps' = Append(steps, Step("assemble", li, FALSE, current_url, clock'))
    /\ pc' = AfterAssembly(post_hooks)
    /\ hi' = 1
    /\ UNCHANGED <<component, scraping_mode, selenium_mode, driver, scoped,
                   result, visited, linkVars, self_link_list, pre_hooks,
                   post_hooks, selectors, site, current_url, dom, li, fi,
                   locals, articles>>

\* One iteration of `for hook in self.post_hooks`: a hook that returns has
\* derived a field of its own into article_data.
PostHook ==
    /\ pc = "post_hooks"
    /\ hi <= Len(post_hooks)
    /\ clock' = clock + 1
    /\ \E outcome \in HookOutcomes(site) :
          LET a == AfterHook(outcome, hi, Len(post_hooks), "post_hooks", "append") IN
          /\ current_url' = UrlAfterHook(outcome, current_url)
          /\ article_data' =
                IF outcome = "raises" THEN article_data
                ELSE [article_data EXCEPT !.extra = Append(@, post_hooks[hi])]
          /\ steps' = Append(steps, Step("post_hook", post_hooks[hi],
                                         outcome = "raises", current_url', clock'))
          /\ pc' = a.pc
          /\ hi' = a.hi
    /\ UNCHANGED <<component, scraping_mode, selenium_mode, driver, scoped,
                   result, visited, linkVars, self_link_list, pre_hooks,
                   post_hooks, selectors, site, dom, li, fi, locals, articles>>

\* return article_data; articles.append(article_data); time.sleep(...)
AppendArticle ==
    /\ pc = "append"
    /\ clock' = clock + 1
    /\ articles' = Append(articles, article_data)
    /\ steps' = Append(steps, Step("append", li, FALSE, current_url, clock'))
    /\ li' = li + 1
    /\ pc' = "loop"
    /\ UNCHANGED <<component, scraping_mode, selenium_mode, driver, scoped,
                   result, visited, linkVars, self_link_list, pre_hooks,
                   post_hooks, selectors, site, current_url, dom, hi, fi,
                   locals, article_data>>

\* After run()'s loop: driver.quit(); return articles.
ContentRunEnd ==
    /\ pc = "loop"
    /\ li > Len(self_link_list)
    /\ driver' = "closed"
    /\ result' = Return("articles")
    /\ pc' = "done"
    /\ UNCHANGED <<component, scraping_mode, selenium_mode, scoped, visited,
                   linkVars, contentVars>>

NextContent ==
    \/ ContentRun
    \/ Navigate
    \/ PreHook
    \/ ExtractField
    \/ Assemble
    \/ PostHook
    \/ AppendArticle
    \/ ContentRunEnd

\* --------------------------------------------------- specifications

\* The selectors of a typical configuration: single-element fields read as
\* they are, multi-element fields through a transform.
TypicalConfig == Config(Selector("xpath", FALSE, Null), Selector("xpath", TRUE, "total"))

\* Both classes: any urls / link_list up to MaxTargets, with or without a
\* hook of each kind, on a site where the body locator may match nothing.
Init ==
    \/ InitLinkScraper
    \/ InitContentScraper(UNION {LinkLists(n) : n \in 0..MaxTargets},
                          {Hooks(0), Hooks(1)},
                          {TypicalConfig},
                          [flaky : {{"body"}}, moving : BOOLEAN])

Next ==
    \/ LinkRun
    \/ scrape_links_rss
    \/ scrape_links_api_page
    \/ scrape_links_api_end
    \/ scrape_links_frontend_page
    \/ scrape_links_frontend_end
    \/ LinkRunExit
    \/ ContentRun
    \/ Navigate
    \/ PreHook
    \/ ExtractField
    \/ Assemble
    \/ PostHook
    \/ AppendArticle
    \/ ContentRunEnd

Spec == Init /\ [][Next]_vars

\* One call of scrape_article_frontend (a run over one link) on a site
\* where any field's locator may match nothing, for each kind of selector.
InitArticle ==
    InitContentScraper({<<"l1">>}, {Hooks(1)},
                       {Config(s, s) : s \in SelectorKinds} \cup {TypicalConfig},
                       {[flaky |-> FieldNames, moving |-> TRUE]})

SpecArticle == InitArticle /\ [][NextContent]_vars

\* One call of scrape_article_frontend for every pair of hook lists up to
\* MaxHooks, each hook raising, returning or moving the browser.
InitHooks ==
    InitContentScraper({<<"l1">>}, {Hooks(n) : n \in 0..MaxHooks},
                       {TypicalConfig},
                       {[flaky |-> {"body"}, moving |-> TRUE]})

SpecHooks == InitHooks /\ [][NextContent]_vars

\* ------------------------------------------------------------ claims

IsLinkScraper == component = "ArticleLinkScraper"
IsContentScraper == component = "ArticleContentScraper"
Min(S) == CHOOSE x \in S : \A y \in S : x <= y
\* The part of seq before the first of the positions bad.
Before(seq, bad) == IF bad = {} THEN seq ELSE SubSeq(seq, 1, Min(bad) - 1)

\* scrape_links_api / scrape_links_frontend was called and has ended.
Collected ==
    /\ IsLinkScraper
    /\ scraping_mode \in {"API", "FRONTEND"}
    /\ driver # "none"
    /\ pc \in {"run_exit", "done"}

\* The links target number k yielded before it finished or failed: the
\* hrefs before the first element that raised; the links of the exchanges
\* for the target's URL before the first one that could not be processed.
Yield(k) ==
    LET o == observed[k] IN
    IF ~o.loaded \/ article_url_selector = Null THEN <<>>
    ELSE IF scraping_mode = "FRONTEND"
    THEN Before(o.served, {i \in 1..Len(o.served) : o.served[i] = Stale})
    ELSE LET mine == SelectSeq(o.served, LAMBDA v : v.url = urls[k])
             good == Before(mine, {i \in 1..Len(mine) : ~mine[i].resp.ok})
         IN Flatten([i \in 1..Len(good) |-> good[i].resp.links])

\* C1 as stated: the call raises the no-links-found error if every
\* target failed, and otherwise returns exactly the links of the successful
\* targets, in target order, nothing coming from a failed target.
C1_Original ==
    Collected =>
        IF \A k \in 1..Len(observed) : observed[k].failed
        THEN result = Raise("NoLinks")
        ELSE /\ result = Return("link_list")
             /\ link_list = Flatten([k \in 1..Len(observed) |->
                                IF observed[k].failed THEN <<>> ELSE Yield(k)])

\* C1 (amended): api and frontend link collection raises the no-links-found
\* error exactly when no link was accumulated, and otherwise returns, in
\* target order, what every target yielded before it finished or failed, in
\* extraction order, duplicates kept.
C1_LinksCollected ==
    Collected =>
        LET all == Flatten([k \in 1..Len(observed) |-> Yield(k)]) IN
        /\ Len(observed) = Len(urls)
        /\ IF all = <<>> THEN result = Raise("NoLinks")
           ELSE result = Return("link_list") /\ link_list = all

\* A frontend call that returned a duplicate link, after one target
\* succeeded and another failed having yielded a link.
C1_Witness ==
    /\ Collected
    /\ scraping_mode = "FRONTEND"
    /\ result = Return("link_list")
    /\ Len(observed) = 2
    /\ ~observed[1].failed
    /\ observed[2].failed
    /\ link_list = <<"a1", "a1", "a1">>

\* scrape_links_rss was called, loaded the feed and has ended.
FeedRead ==
    /\ IsLinkScraper
    /\ scraping_mode = "RSS"
    /\ pc \in {"run_exit", "done"}
    /\ observed # <<>>
    /\ observed[1].loaded

\* C2: in feed mode a malformed document ends the call with a parse error,
\* a well-formed document without items with the no-links-found error, and
\* the call never returns an empty list.
C2_FeedErrors ==
    FeedRead =>
        LET feed == observed[1].served IN
        /\ ~feed.wellformed => result = Raise("ParseError")
        /\ (feed.wellformed /\ feed.items = <<>>) => result = Raise("NoLinks")
        /\ ~(result = Return("link_list") /\ link_list = <<>>)

\* scrape_article_frontend has assembled its record.
Extracted == IsContentScraper /\ article_data.assembled

\* What the selector of field f produced on this page when it did not fail.
Produced(f) ==
    LET sel == selectors[f]
        multiple == f \in PassesMultiple /\ sel.multiple
    IN Value(IF ~multiple THEN "element"
             ELSE IF dom[f] = "absent" THEN "[]" ELSE "[element]",
             sel.func # Null)

\* The selector of field f fails as C3 words it: it is not configured, its
\* locator matches nothing, or its transform raises.
FailsAsClaimed(f) ==
    LET sel == selectors[f] IN
    \/ ~sel.configured
    \/ sel.xpath = Null
    \/ dom[f] = "absent"
    \/ sel.func = "raises"
    \/ sel.func = "strict" /\ dom[f] = "absent"

\* The selector of field f fails: it is not configured, its single-element
\* locator matches nothing, or its transform raises on what it is given.
Fails(f) ==
    LET sel == selectors[f]
        multiple == f \in PassesMultiple /\ sel.multiple
    IN \/ ~sel.configured
       \/ sel.xpath = Null
       \/ ~multiple /\ dom[f] = "absent"
       \/ sel.func = "raises"
       \/ multiple /\ sel.func = "strict" /\ dom[f] = "absent"

C4_SessionReleased == (pc = "done" /\ driver # "none") => driver = "closed"

\* ArticleContentScraper.run in FRONTEND mode over a non-empty list has ended.
Scraped ==
    /\ IsContentScraper
    /\ scraping_mode = "FRONTEND"
    /\ selenium_mode \in {"uc", "wire"}
    /\ self_link_list # <<>>
    /\ pc = "done"

\* C5: content extraction over a non-empty link list returns one record
\* per link, in link order, record i carrying link i as archive_url.
C5_OneRecordPerLink ==
    Scraped =>
        /\ result = Return("articles")
        /\ Len(articles) = Len(self_link_list)
        /\ \A i \in 1..Len(articles) : articles[i].archive_url = self_link_list[i]

\* The run is misconfigured: a scraping mode that is none of the three, or
\* (content scraper) an empty link list.
Misconfigured ==
    \/ scraping_mode \notin {"RSS", "API", "FRONTEND"}
    \/ IsContentScraper /\ self_link_list = <<>>

\* C6: a misconfigured run raises a configuration error as the first thing
\* it does: no session has been created and no URL navigated to.
C6_ConfigurationErrors ==
    Misconfigured =>
        /\ driver = "none"
        /\ visited = <<>>
        /\ pc \in {"run", "done"}
        /\ pc = "done" => result \in {Raise(NoScrapingMethod), Raise(EmptyLinkList)}

\* A content run over two links with an unknown mode that has raised.
C6_Witness ==
    /\ IsContentScraper
    /\ scraping_mode = "OTHER"
    /\ Len(self_link_list) = 2
    /\ pc = "done"
    /\ result = Raise(NoScrapingMethod)

\* C7: when scrape_links_api is about to request a target, the capture
\* list holds no exchange recorded while an earlier target was processed.
C7_CaptureReset ==
    (IsLinkScraper /\ pc = "scrape_links_api" /\ page <= Len(urls)) =>
        \A i \in 1..Len(requests) : requests[i].at >= page

\* The hooks called for the current link in the given phase, in call order.
Called(op) ==
    LET calls == SelectSeq(steps, LAMBDA x : x.op = op)
    IN [i \in 1..Len(calls) |-> calls[i].n]
\* The positions in steps of the steps of kind op.
Positions(op) == {i \in 1..Len(steps) : steps[i].op = op}

\* C8: whatever hooks raise, scrape_article_frontend raises nothing, calls
\* every pre-hook and every post-hook once in list order, attempts the
\* fields after the pre-hooks and returns the record after the post-hooks.
C8_HookIsolation ==
    (IsContentScraper /\ steps # <<>>) =>
        /\ result.kind # "raise"
        /\ Called("pre_hook") = SubSeq(pre_hooks, 1, Len(Called("pre_hook")))
        /\ Called("post_hook") = SubSeq(post_hooks, 1, Len(Called("post_hook")))
        /\ pc # "pre_hooks" =>
              /\ Called("pre_hook") = pre_hooks
              /\ \A i \in Positions("pre_hook"), j \in Positions("field") : i < j
        /\ pc \in {"assemble", "post_hooks", "append", "loop", "done"} =>
              Cardinality(Positions("field")) = Len(Fields)
        /\ pc \in {"append", "loop", "done"} =>
              /\ Called("post_hook") = post_hooks
              /\ article_data.assembled
        /\ pc \in {"loop", "done"} => articles = <<article_data>>
        /\ pc = "done" => result = Return("articles")

\* A call with two hooks of each kind that returned its record although
\* the first pre-hook and the first post-hook raised.
C8_Witness ==
    /\ IsContentScraper
    /\ pc = "done"
    /\ result = Return("articles")
    /\ Len(pre_hooks) = 2
    /\ Len(post_hooks) = 2
    /\ \E i, j \in 1..Len(steps) :
          /\ steps[i].op = "pre_hook" /\ steps[i].n = 1 /\ steps[i].raised
          /\ steps[j].op = "post_hook" /\ steps[j].n = 1 /\ steps[j].raised
    /\ articles[1].extra = <<2>>

\* scrape_links_rss was called and has ended.
FeedDone == IsLinkScraper /\ scraping_mode = "RSS" /\ pc \in {"run_exit", "done"}
ItemLinks(feed) == [i \in 1..Len(feed.items) |-> feed.items[i].link]

\* C9 as stated: feed mode navigates to the first target only and for a
\* well-formed feed returns the link of every item, in document order.
C9_Original ==
    (IsLinkScraper /\ scraping_mode = "RSS") =>
        /\ visited \in {<<>>} \cup {<<urls[1]>> : i \in 1..Len(urls)}
        /\ (FeedDone /\ urls # <<>>) => visited = <<urls[1]>>
        /\ (FeedRead /\ observed[1].served.wellformed) =>
              /\ result = Return("link_list")
              /\ link_list = ItemLinks(observed[1].served)

\* C9 (amended): feed mode navigates to the first target only; for a
\* well-formed feed whose items all have a link child it returns the link
\* text of every item, one entry per item in document order, and for a
\* well-formed feed with an item that has no link child it raises.
C9_FeedLinks ==
    (IsLinkScraper /\ scraping_mode = "RSS") =>
        /\ visited \in {<<>>} \cup {<<urls[1]>> : i \in 1..Len(urls)}
        /\ (FeedDone /\ urls # <<>>) => visited = <<urls[1]>>
        /\ (FeedRead /\ observed[1].served.wellformed) =>
              IF \A i \in 1..Len(observed[1].served.items) :
                    observed[1].served.items[i].link # NoLinkChild
              THEN /\ result = Return("link_list")
                   /\ link_list = ItemLinks(observed[1].served)
              ELSE result = Raise("AttributeError")

\* A feed of two items read from the first of two targets.
C9_Witness ==
    /\ FeedRead
    /\ pc = "done"
    /\ urls = <<"u2", "u1">>
    /\ visited = <<"u2">>
    /\ ItemLinks(observed[1].served) = <<"a1", "a2">>
    /\ link_list = <<"a1", "a2">>
    /\ result = Return("link_list")

\* The steps of one link, in the order C10 gives.
RECURSIVE Ops(_, _)
Ops(op, n) == IF n = 0 THEN <<>> ELSE Append(Ops(op, n - 1), op)
ExpectedOps ==
    <<"navigate">> \o Ops("pre_hook", Len(pre_hooks)) \o Ops("field", Len(Fields))
    \o <<"assemble">> \o Ops("post_hook", Len(post_hooks)) \o <<"append">>
\* The step at which the record of the current link was assembled.
AssembledAt == steps[Min(Positions("assemble"))]

\* C10: for each link the steps are, each once and in this order: navigate,
\* the pre-hooks, the ten fields, the assembly (which reads the clock and
\* the current URL), the post-hooks, the append; no link is navigated to
\* before the record of the link before it has been appended.
C10_StepOrder ==
    IsContentScraper =>
        /\ Len(steps) <= Len(ExpectedOps)
        /\ \A i \in 1..Len(steps) :
              /\ steps[i].op = ExpectedOps[i]
              /\ steps[i].op \in {"pre_hook", "post_hook", "field"} =>
                    steps[i].n = Cardinality({j \in 1..i : steps[j].op = steps[i].op})
              /\ i > 1 => steps[i].t > steps[i - 1].t
        /\ article_data.assembled =>
              /\ article_data.datetime_saved = AssembledAt.t
              /\ article_data.url = AssembledAt.url
              /\ article_data.url = steps[Min(Positions("assemble")) - 1].url
        /\ visited = SubSeq(self_link_list, 1, Len(visited))
        /\ Len(visited) \in {Len(articles), Len(articles) + 1}
        /\ (steps # <<>> /\ steps[Len(steps)].op # "append") =>
              Len(visited) = Len(articles) + 1
        /\ (pc = "loop") => Len(visited) = Len(articles)

\* The second of two links is being extracted after the record of the
\* first was appended; a pre-hook has moved the browser before the assembly.
C10_Witness ==
    /\ IsContentScraper
    /\ Len(articles) = 1
    /\ Len(visited) = 2
    /\ pc = "append"
    /\ article_data.url.state = "moved"
    /\ steps[Len(steps)].op = "post_hook"
    /\ Len(pre_hooks) = 1
    /\ Len(post_hooks) = 1

\* A content run whose link list is not empty.
RunOverLinks == IsContentScraper /\ self_link_list # <<>>

\* C11: a content run over a non-empty link list in mode RSS or API does
\* nothing and returns None: it creates no session, visits no link, raises
\* no error and builds no record list. Only mode FRONTEND visits links,
\* produces records or returns the record list, and the run raises the
\* unrecognized-mode error exactly when the mode is none of the three.
C11_UnimplementedModes ==
    RunOverLinks =>
        /\ scraping_mode \in {"RSS", "API"} =>
              /\ driver = "none"
              /\ visited = <<>>
              /\ steps = <<>>
              /\ articles = <<>>
              /\ result.kind # "raise"
              /\ pc \in {"run", "done"}
              /\ pc = "done" => result = Return(Null)
        /\ (visited # <<>> \/ articles # <<>> \/ driver # "none"
               \/ result = Return("articles")) => scraping_mode = "FRONTEND"
        /\ pc = "done" =>
              (result = Raise(NoScrapingMethod)
                  <=> scraping_mode \notin {"RSS", "API", "FRONTEND"})

\* An API-mode content run over two links has ended: no session, no visit,
\* and None as its result.
C11_Witness ==
    /\ RunOverLinks
    /\ scraping_mode = "API"
    /\ Len(self_link_list) = 2
    /\ pc = "done"
    /\ result = Return(Null)
    /\ driver = "none"
    /\ visited = <<>>

====
